---- MODULE Spec2Model ----
(***************************************************************************)
(* Model of the Cardinal ticker plugin (plugins/ticker/plugin.py): the     *)
(* Alpha Vantage request helper with its retry loop, the date search of    *)
(* get_daily, and the TickerPlugin object with its timer, its ticker, its  *)
(* predictions report and its chat commands.                               *)
(***************************************************************************)
EXTENDS Integers, Sequences, FiniteSets, TLC

VARIABLES
    now,        \* the New York wall clock, in seconds since a Monday 00:00:00
    av,         \* SpecAV: the frame of the one make_av_request call under study
    av_log,     \* SpecAV: what that call did so far (requests, responses, sleeps, its end)
    av_calls,   \* SpecAV: number of calls of make_av_request made so far
    gd_data,    \* SpecDaily: the time series get_time_series_daily gave (date -> values)
    gd_res,     \* SpecDaily: what get_daily did with it
    config,     \* the ticker section of the configuration given to setup()
    plugin,     \* the TickerPlugin object: not built yet, failed to build, running, closed
    relay_bots, \* self.relay_bots
    timers,     \* the reactor's pending callLater(.., self.tick) calls
    call_id,    \* self.call_id: the DelayedCall of the latest wait()
    ticks,      \* number of tick() executions started
    tk,         \* the frame of tick() (an inlineCallbacks coroutine)
    st,         \* the frame of send_ticker(): one get_daily_change per symbol
    dp,         \* the frame of the sleep(60) + do_predictions() tail of tick()
    chat,       \* the frames of the check / predict handlers in flight
    predictions,\* self.predictions: symbol -> nick -> (time, base, prediction)
    sent,       \* the cardinal.sendMsg(channel, message) calls of the latest step, in order
    last,       \* the chat command handed to the plugin in the latest step, if any
    ended,      \* the check / predict handler that ended in the latest step, if any
    n_chat      \* number of chat commands handed to the plugin

avvars == <<av, av_log, av_calls>>
gdvars == <<gd_data, gd_res>>
plvars == <<config, plugin, relay_bots, timers, call_id, ticks, tk, st, dp,
            chat, predictions, sent, last, ended, n_chat>>
vars == <<now, av, av_log, av_calls, gd_data, gd_res, config, plugin,
          relay_bots, timers, call_id, ticks, tk, st, dp, chat, predictions,
          sent, last, ended, n_chat>>

----------------------------------------------------------------------------
(* Bounds *)
MaxCalls == 2           \* calls of make_av_request explored by SpecAV
MaxLatency == 2         \* longest time (seconds) an HTTP request takes in SpecAV
MaxEntries == 3         \* dates with an entry in a time series explored by SpecDaily
MaxTicks == 2           \* executions of tick() explored by Spec
MaxChat == 2            \* chat commands explored by Spec
MaxHandlers == 1        \* chat handlers in flight at the same time
MaxSymbols == 5         \* symbols with a prediction explored by SpecReport
WindowDays == 12        \* how far back (days) those entries may lie

----------------------------------------------------------------------------
(* make_av_request *)

MAX_RETRIES == 3
RETRY_WAIT == 15

\* What one HTTP attempt can come back with:
\*   "ok"    a JSON body with a 'Time Series (Daily)' key
\*   "nokey" a JSON body without it and without a rate-limit note
\*   "note"  a JSON body whose 'Note' mentions 'call frequency'
\*   "error" requests.get or r.json() raised
Outcomes == {"ok", "nokey", "note", "error"}

NoResult == [kind |-> "unbound", attempt |-> 0]

NoCall == [pc |-> "none", retries_remaining |-> 0, result |-> NoResult,
           exc |-> "none", wake |-> 0, requests |-> 0, slept |-> 0]

\* A rate-limit note taken for a result like any other JSON body.
AttemptRaises_NoThrottle(o) == o = "error"

\* The try block of one attempt raises: ThrottledException for a rate-limit
\* note, whatever requests.get / r.json() raised otherwise.
AttemptRaises(o) == o \in {"note", "error"}

ExcOf(o) == IF o = "note" THEN "ThrottledException" ELSE "Exception"

\* The head of the while loop: test, decrement, issue the request; when the
\* loop condition fails the function falls through to returnValue(result).
AvLoop(c) ==
    IF c.retries_remaining > 0
    THEN [c EXCEPT !.retries_remaining = @ - 1,
                   !.pc = "http",
                   !.requests = @ + 1]
    ELSE IF c.result.kind = "unbound"
         THEN [c EXCEPT !.pc = "raised", !.exc = "UnboundLocalError"]
         ELSE [c EXCEPT !.pc = "returned"]

\* MAX_RETRIES read as a number of retries after the first try.
AvStart_Retries == AvLoop([NoCall EXCEPT !.retries_remaining = MAX_RETRIES + 1])

\* Entry of make_av_request up to the first deferToThread.
AvStart == AvLoop([NoCall EXCEPT !.retries_remaining = MAX_RETRIES])

\* A backoff that grows with the number of tries, and a sleep before giving up.
AvResponse_Growing(c, o, t) ==
    IF ~AttemptRaises(o)
    THEN [c EXCEPT !.result = [kind |-> o, attempt |-> c.requests],
                   !.pc = "returned"]
    ELSE [c EXCEPT !.exc = ExcOf(o), !.pc = "sleep",
                   !.wake = t + RETRY_WAIT * c.requests,
                   !.slept = @ + 1]

\* The attempt in flight comes back with outcome o at time t.
AvResponse(c, o, t) ==
    IF ~AttemptRaises(o)
    THEN [c EXCEPT !.result = [kind |-> o, attempt |-> c.requests],
                   !.pc = "returned"]
    ELSE LET r == IF o = "note"
                  THEN [kind |-> "note", attempt |-> c.requests]
                  ELSE c.result
         IN IF c.retries_remaining = 0
            THEN [c EXCEPT !.result = r, !.exc = ExcOf(o), !.pc = "raised"]
            ELSE [c EXCEPT !.result = r, !.exc = ExcOf(o), !.pc = "sleep",
                           !.wake = t + RETRY_WAIT,
                           !.slept = @ + 1]

\* sleep(RETRY_WAIT) is over: continue.
AvWake(c) == AvLoop(c)

AvOver(c) == c.pc \in {"none", "returned", "raised"}

----------------------------------------------------------------------------
(* get_delta, get_daily *)

DAY == 86400            \* datetime.timedelta(days=1), in seconds
SEARCH_DAYS == 5        \* the "count < 5" of both loops of get_daily
Scale == 100            \* percentages are kept in hundredths of a percent

\* today.strftime('%Y-%m-%d'): the calendar date of a time, as a day number.
DateKey(t) == t \div DAY

\* float(new_value) / float(old_value) * 100 - 100, in hundredths of a percent.
get_delta(new_value, old_value) ==
    (new_value * 100 * Scale) \div old_value - 100 * Scale

\* while data.get(day) is None and count < 5: count += 1; day -= 1 day
RECURSIVE SearchBack_Four(_, _, _)
SearchBack_Four(data, t, count) ==
    IF DateKey(t) \notin DOMAIN data /\ count < SEARCH_DAYS - 1
    THEN SearchBack_Four(data, t - DAY, count + 1)
    ELSE t

RECURSIVE SearchBack(_, _, _)
SearchBack(data, t, count) ==
    IF DateKey(t) \notin DOMAIN data /\ count < SEARCH_DAYS
    THEN SearchBack(data, t - DAY, count + 1)
    ELSE t

NoDate == -1
NoDaily == [pc |-> "called"]
DailyError(today, last_day) ==
    [ok |-> FALSE, today |-> today, last_day |-> last_day,
     current |-> 0, close |-> 0, open |-> 0, percentage |-> 0]

\* get_daily after get_time_series_daily returned data, est_now() being t.
\* today and last_day are the dates it settled on (NoDate: none found).
GetDaily(data, t) ==
    LET today == SearchBack(data, t, 0)
    IN  IF DateKey(today) \notin DOMAIN data
        THEN DailyError(NoDate, NoDate)
        ELSE LET last_day == SearchBack(data, today - DAY, 0)
             IN  IF DateKey(last_day) \notin DOMAIN data
                 THEN DailyError(DateKey(today), NoDate)
                 ELSE LET current_value == data[DateKey(today)]
                          last_day_value == data[DateKey(last_day)]
                      IN  [ok |-> TRUE,
                           today |-> DateKey(today),
                           last_day |-> DateKey(last_day),
                           current |-> current_value.close,
                           close |-> current_value.close,
                           open |-> current_value.open,
                           percentage |-> get_delta(last_day_value.close,
                                                    current_value.close)]

----------------------------------------------------------------------------
(* The New York wall clock *)

Weekday(t) == (t \div DAY) % 7          \* now.weekday(): 0 is Monday
Hour(t) == (t % DAY) \div 3600
Minute(t) == (t % 3600) \div 60
Second(t) == t % 60

\* A time of the third week of the clock.
At(weekday, hour, minute, second) ==
    (14 + weekday) * DAY + hour * 3600 + minute * 60 + second

market_is_open(t) ==
    LET is_market_closed ==
            \/ Weekday(t) >= 5
            \/ (Hour(t) < 9 \/ Hour(t) >= 17)
            \/ (Hour(t) = 9 /\ Minute(t) < 30)
            \/ (Hour(t) = 16 /\ Minute(t) > 0)
    IN  ~is_market_closed

----------------------------------------------------------------------------
(* The Alpha Vantage data *)

\* The daily values of a symbol, in cents: the environment's price history.
QuoteOf(symbol, d) ==
    [open |-> 10000 + 100 * symbol * ((d + 1) % 4),
     close |-> 10000 + 100 * symbol * (d % 4)]

\* 'Time Series (Daily)' of a response at time t: the trading days so far,
\* today included once the market has opened.
Market(symbol, t) ==
    LET days == {d \in (DateKey(t) - WindowDays)..DateKey(t) :
                    /\ d >= 0
                    /\ d % 7 < 5
                    /\ d = DateKey(t) => t % DAY >= 9 * 3600 + 30 * 60}
    IN  [d \in days |-> QuoteOf(symbol, d)]

EmptySeries == [d \in {} |-> QuoteOf(1, d)]

\* The responses to a request: the outcomes of make_av_request, an "ok" one
\* carrying the market's series, and "empty", an "ok" one whose series has no
\* entry.
Responses == Outcomes \cup {"empty"}
OutcomeOf(r) == IF r = "empty" THEN "ok" ELSE r
SeriesOf(r, symbol, t) == IF r = "ok" THEN Market(symbol, t) ELSE EmptySeries

\* What get_daily gives its caller once its make_av_request is over:
\* get_time_series_daily raises KeyError without 'Time Series (Daily)'.
DailyOutcome(c, data, t) ==
    IF c.pc = "raised"
    THEN [ok |-> FALSE, exc |-> c.exc, res |-> DailyError(NoDate, NoDate)]
    ELSE IF c.result.kind # "ok"
    THEN [ok |-> FALSE, exc |-> "KeyError", res |-> DailyError(NoDate, NoDate)]
    ELSE LET r == GetDaily(data, t)
         IN  [ok |-> r.ok, exc |-> IF r.ok THEN "none" ELSE "Exception",
              res |-> r]

Pending == [ok |-> FALSE, exc |-> "pending", res |-> DailyError(NoDate, NoDate)]

\* A get_daily call in flight for a symbol.
Lookup(symbol) == [sym |-> symbol, av |-> AvStart, out |-> Pending]

\* The response to the request of lookup f arrives: make_av_request goes on,
\* and when it is over so are get_time_series_daily and get_daily (the frame
\* of make_av_request is gone then).
LookupResponse(f, r, t) ==
    LET c == AvResponse(f.av, OutcomeOf(r), t)
    IN  IF AvOver(c)
        THEN [f EXCEPT !.av = NoCall,
                       !.out = DailyOutcome(c, SeriesOf(r, f.sym, t), t)]
        ELSE [f EXCEPT !.av = c]

\* The sleep(RETRY_WAIT) of lookup f is over.
LookupWake(f, t) ==
    LET c == AvWake(f.av)
    IN  IF AvOver(c)
        THEN [f EXCEPT !.av = NoCall, !.out = DailyOutcome(c, EmptySeries, t)]
        ELSE [f EXCEPT !.av = c]


----------------------------------------------------------------------------
(* Configuration and construction *)

None == "None"

ChannelChoices == {<<>>, <<"#a", "#b">>}
StockChoices == {<<>>, <<2, 1>>, <<1, 2, 3, 4, 5, 6>>}
RelayChoices ==
    {<<>>,
     <<[nick |-> "ghost", user |-> "g", vhost |-> None],
       [nick |-> "relay", user |-> None, vhost |-> "bridge"]>>}

Configs ==
    [api_key : {None, "key"}, channels : ChannelChoices,
     stocks : StockChoices, relay_bots : RelayChoices]

MAX_STOCKS == 5

\* The checks of __init__: the exception it raises, "none" when it goes on.
ConfigError_Six(cfg) ==
    IF cfg.api_key = None THEN "KeyError"
    ELSE IF Len(cfg.stocks) > MAX_STOCKS + 1 THEN "ValueError"
    ELSE "none"

ConfigError(cfg) ==
    IF cfg.api_key = None THEN "KeyError"
    ELSE IF Len(cfg.stocks) > MAX_STOCKS THEN "ValueError"
    ELSE "none"

\* The times the plugin is loaded at.
StartTimes ==
    {At(0, 9, 20, 30),      \* Monday, before the opening
     At(1, 11, 7, 0),       \* Tuesday, market open
     At(4, 15, 50, 0),      \* Friday, before the close
     At(5, 9, 22, 10),      \* Saturday morning
     At(6, 15, 45, 0)}      \* Sunday afternoon

NoTimer == [id |-> 0, state |-> "none"]
IdleTick == [pc |-> "idle", at |-> 0, do_predictions |-> FALSE, exc |-> "none"]
IdleTicker == [state |-> "idle", frames |-> <<>>, exc |-> "none", msg |-> <<>>,
               to |-> <<>>]
NoLookup == [sym |-> 0, av |-> NoCall, out |-> Pending]
\* after: when tick() went on from its send_ticker to wait() and sleep(60);
\* starts: the times this run of do_predictions called get_daily at.
IdleReport == [pc |-> "idle", at |-> 0, wake |-> 0, pos |-> 0, used |-> 0,
               f |-> NoLookup, exc |-> "none", after |-> 0, starts |-> <<>>]
NoPredictions == <<>>                  \* defaultdict(dict), in insertion order
NoChat == [n |-> 0, op |-> "none"]
NoEnd == [op |-> "none", nick |-> None, symbol |-> 0, parsed |-> FALSE,
          old |-> FALSE, base |-> 0, prediction |-> 0, exc |-> "none"]

\* self.config = config or {}, with its defaults
EmptyConfig ==
    [api_key |-> None, channels |-> <<>>, stocks |-> <<>>, relay_bots |-> <<>>]

\* The plugin's variables before setup() is called.
PluginUnset ==
    /\ plugin = [state |-> "unset", exc |-> "none"]
    /\ relay_bots = <<>>
    /\ timers = {}
    /\ call_id = NoTimer
    /\ ticks = 0
    /\ tk = IdleTick
    /\ st = IdleTicker
    /\ dp = IdleReport
    /\ chat = <<>>
    /\ predictions = NoPredictions
    /\ sent = <<>>
    /\ last = NoChat
    /\ ended = NoEnd
    /\ n_chat = 0

InitWith(times, configs) ==
    /\ now \in times
    /\ config \in configs
    /\ PluginUnset
    /\ av = NoCall /\ av_log = <<>> /\ av_calls = 0
    /\ gd_data = <<>> /\ gd_res = NoDaily

\* wait(): the DelayedCall it hands to the reactor at time t, the id-th one.
Wait(t, id) ==
    LET minutes_to_sleep == 15 - (Minute(t) % 15)
        seconds_to_sleep == minutes_to_sleep * 60 - Second(t)
    IN  [id |-> id, at |-> t + minutes_to_sleep * 60, set |-> t]

NextId == call_id.id + 1

\* __init__
Setup ==
    /\ plugin.state = "unset"
    /\ IF ConfigError(config) # "none"
       THEN /\ plugin' = [state |-> "failed", exc |-> ConfigError(config)]
            /\ UNCHANGED <<relay_bots, timers, call_id, predictions>>
       ELSE /\ plugin' = [state |-> "running", exc |-> "none"]
            /\ relay_bots' = config.relay_bots
            /\ predictions' = NoPredictions
            /\ timers' = timers \cup {Wait(now, 1)}
            /\ call_id' = [id |-> 1, state |-> "pending"]
    /\ sent' = <<>> /\ last' = NoChat /\ ended' = NoEnd
    /\ UNCHANGED <<now, config, ticks, tk, st, dp, chat, n_chat, avvars, gdvars>>

\* close(): cancel() raises AlreadyCalled for a call that already ran, and
\* AlreadyCancelled (caught) for one already cancelled.
Close ==
    /\ plugin.state = "running"
    /\ plugin' = [state |-> "closed",
                  exc |-> IF call_id.state = "called" THEN "AlreadyCalled"
                          ELSE "none"]
    /\ timers' = {c \in timers : c.id # call_id.id}
    /\ call_id' = IF call_id.state = "pending"
                  THEN [call_id EXCEPT !.state = "cancelled"]
                  ELSE call_id
    /\ sent' = <<>> /\ last' = NoChat /\ ended' = NoEnd
    /\ UNCHANGED <<now, config, relay_bots, ticks, tk, st, dp, chat,
                   predictions, n_chat, avvars, gdvars>>

----------------------------------------------------------------------------
(* tick and send_ticker *)

colorize(percentage) ==
    [color |-> IF percentage > 0 THEN "09" ELSE "04", text |-> percentage]

format_symbol(symbol, change) == [symbol |-> symbol, change |-> colorize(change)]

Msg(channel, kind, body, origin) ==
    [chan |-> channel, kind |-> kind, body |-> body, tick |-> origin]

\* for channel in self.config["channels"]: sendMsg(channel, message)
ToChannels(kind, body, origin) ==
    [i \in 1..Len(config.channels) |-> Msg(config.channels[i], kind, body, origin)]

\* tick() from self.wait() on: the next timer, then sleep(60) when the
\* predictions are due.
TickGoesOn(t, origin, do_predictions, pending) ==
    /\ timers' = pending \cup {Wait(t, NextId)}
    /\ call_id' = [id |-> NextId, state |-> "pending"]
    /\ tk' = [IdleTick EXCEPT !.at = origin]
    /\ dp' = IF do_predictions
             THEN [IdleReport EXCEPT !.pc = "sleep60", !.at = origin,
                                     !.wake = t + 60, !.after = t]
             ELSE dp

\* The reactor calls tick().
TimerFire ==
    /\ ticks < MaxTicks
    /\ \E c \in timers :
         /\ c.at = now
         /\ LET is_market_open ==
                    ~(\/ Weekday(now) >= 5
                      \/ (Hour(now) < 9 \/ Hour(now) >= 17)
                      \/ (Hour(now) = 9 /\ Minute(now) < 30)
                      \/ (Hour(now) = 16 /\ Minute(now) > 0))
                is_open == Hour(now) = 9 /\ Minute(now) = 30
                is_close == Hour(now) = 16 /\ Minute(now) = 0
                do_predictions == is_open \/ is_close
                should_send_ticker ==
                    is_market_open /\ config.channels # <<>> /\ config.stocks # <<>>
            IN  IF should_send_ticker
                THEN /\ st' = [state |-> "waiting",
                               frames |-> [i \in 1..Len(config.stocks) |->
                                              Lookup(config.stocks[i])],
                               exc |-> "none", msg |-> <<>>, to |-> <<>>]
                     /\ tk' = [pc |-> "send_ticker", at |-> now,
                               do_predictions |-> do_predictions, exc |-> "none"]
                     /\ timers' = timers \ {c}
                     /\ call_id' = IF call_id.id = c.id
                                   THEN [call_id EXCEPT !.state = "called"]
                                   ELSE call_id
                     /\ UNCHANGED dp
                ELSE /\ TickGoesOn(now, now, do_predictions, timers \ {c})
                     /\ UNCHANGED st
    /\ ticks' = ticks + 1
    /\ sent' = <<>> /\ last' = NoChat /\ ended' = NoEnd
    /\ UNCHANGED <<now, config, plugin, relay_bots, chat, predictions, n_chat,
                   avvars, gdvars>>

\* send_ticker from "dl_results = yield dl" on, every request being over: the
\* exception it raises ("none": it returns) and the message it sends.  The log
\* call of a failed request has two fields for one argument and raises.
SendTickerEnd(frames) ==
    IF \E i \in 1..Len(frames) : ~frames[i].out.ok
    THEN [exc |-> "IndexError", msg |-> <<>>]
    ELSE LET results == [i \in 1..Len(frames) |->
                            [symbol |-> frames[i].sym,
                             result |-> frames[i].out.res.percentage]]
             change == frames[Len(frames)].out.res.percentage
         IN  [exc |-> "none",
              msg |-> [i \in 1..Len(results) |->
                          format_symbol(results[i].symbol, change)]]

\* send_ticker with its requests as in frames: it goes on once all are over,
\* and tick() goes on after it.
TickerStep(frames) ==
    IF \E i \in 1..Len(frames) : frames[i].out = Pending
    THEN /\ st' = [st EXCEPT !.frames = frames]
         /\ sent' = <<>>
         /\ UNCHANGED <<tk, timers, call_id, dp>>
    ELSE LET e == SendTickerEnd(frames)
         IN  /\ sent' = IF e.exc # "none" THEN <<>>
                        ELSE ToChannels("ticker", e.msg, tk.at)
             /\ st' = [state |-> "done", frames |-> frames, exc |-> e.exc,
                       msg |-> e.msg,
                       to |-> [i \in 1..Len(sent') |-> sent'[i].chan]]
             /\ IF e.exc # "none"
                THEN /\ tk' = [IdleTick EXCEPT !.at = tk.at, !.exc = e.exc]
                     /\ UNCHANGED <<timers, call_id, dp>>
                ELSE TickGoesOn(now, tk.at, tk.do_predictions, timers)

\* The response to one of the ticker's requests arrives.
TickerRespond(responses) ==
    /\ st.state = "waiting"
    /\ \E i \in 1..Len(st.frames), r \in responses :
         /\ st.frames[i].av.pc = "http"
         /\ TickerStep([st.frames EXCEPT ![i] = LookupResponse(@, r, now)])
    /\ last' = NoChat /\ ended' = NoEnd
    /\ UNCHANGED <<now, config, plugin, relay_bots, ticks, chat, predictions,
                   n_chat, avvars, gdvars>>

\* The sleep(RETRY_WAIT) of one of the ticker's requests is over.
TickerRetry ==
    /\ st.state = "waiting"
    /\ \E i \in 1..Len(st.frames) :
         /\ st.frames[i].av.pc = "sleep"
         /\ st.frames[i].av.wake = now
         /\ TickerStep([st.frames EXCEPT ![i] = LookupWake(@, now)])
    /\ last' = NoChat /\ ended' = NoEnd
    /\ UNCHANGED <<now, config, plugin, relay_bots, ticks, chat, predictions,
                   n_chat, avvars, gdvars>>

----------------------------------------------------------------------------
(* do_predictions *)

\* self.predictions is kept as the list of its items, in insertion order:
\* <<[sym, entries]>>, entries the items <<[nick, dt, base, prediction]>> of
\* the symbol's dict (by: who sent the command, kept for the record).
HasSymbol(preds, symbol) == \E i \in 1..Len(preds) : preds[i].sym = symbol
SymbolIdx(preds, symbol) == CHOOSE i \in 1..Len(preds) : preds[i].sym = symbol
EntriesOf(preds, symbol) ==
    IF HasSymbol(preds, symbol) THEN preds[SymbolIdx(preds, symbol)].entries
    ELSE <<>>
HasNick(entries, nick) == \E i \in 1..Len(entries) : entries[i].nick = nick

Abs(x) == IF x < 0 THEN -x ELSE x

NoClosest == [prediction |-> -1, delta |-> -1, nick |-> None]

\* The loop over the nicks of one symbol: closest_prediction, closest_delta
\* and closest_nick after the entries from i on, best being their values so
\* far.  "not closest_delta" holds for None and for a delta of 0.
RECURSIVE Closest(_, _, _, _)
Closest(entries, i, actual, best) ==
    IF i > Len(entries) THEN best
    ELSE LET delta == Abs(actual - entries[i].prediction)
             take == \/ best.delta = -1 \/ best.delta = 0
                     \/ delta < best.delta
         IN  Closest(entries, i + 1, actual,
                     IF take THEN [prediction |-> entries[i].prediction,
                                   delta |-> delta, nick |-> entries[i].nick]
                     ELSE best)

\* send_prediction
PredictionBody(e, symbol, actual, t) ==
    [nick |-> e.nick, symbol |-> symbol, prediction |-> e.prediction,
     predicted |-> colorize(get_delta(e.prediction, e.base)),
     at |-> IF market_is_open(t) THEN "open" ELSE "close",
     actual |-> actual, change |-> colorize(get_delta(actual, e.base)),
     dt |-> e.dt]

RECURSIVE Flatten(_)
Flatten(seqs) == IF seqs = <<>> THEN <<>> ELSE Head(seqs) \o Flatten(Tail(seqs))

\* The messages of one symbol's report: each prediction, then the closest.
ReportMessages(symbol, entries, actual, t, origin) ==
    LET best == Closest(entries, 1, actual, NoClosest)
    IN  Flatten([i \in 1..Len(entries) |->
                    ToChannels("prediction",
                               PredictionBody(entries[i], symbol, actual, t),
                               origin)])
        \o ToChannels("closest",
                      [nick |-> best.nick, symbol |-> symbol,
                       count |-> Len(entries), prediction |-> best.prediction,
                       change |-> colorize(get_delta(best.prediction, actual))],
                      origin)

\* The head of "for symbol in self.predictions" with the iterator as in d: a
\* dict whose size changed raises RuntimeError; at the end of the dict the
\* predictions are cleared; otherwise the body starts get_daily(symbol).
DpNext(d) ==
    IF Len(predictions) # d.used
    THEN /\ dp' = [IdleReport EXCEPT !.at = d.at, !.exc = "RuntimeError"]
         /\ UNCHANGED predictions
    ELSE IF d.pos >= Len(predictions)
    THEN /\ dp' = [IdleReport EXCEPT !.at = d.at]
         /\ predictions' = NoPredictions
    ELSE /\ dp' = [d EXCEPT !.pc = "lookup", !.pos = d.pos + 1,
                            !.f = Lookup(predictions[d.pos + 1].sym),
                            !.starts = Append(@, now)]
         /\ UNCHANGED predictions

\* sleep(60) is over: do_predictions starts.
DpStart ==
    /\ dp.pc = "sleep60"
    /\ dp.wake = now
    /\ DpNext([dp EXCEPT !.pos = 0, !.used = Len(predictions)])
    /\ sent' = <<>> /\ last' = NoChat /\ ended' = NoEnd
    /\ UNCHANGED <<now, config, plugin, relay_bots, timers, call_id, ticks, tk,
                   st, chat, n_chat, avvars, gdvars>>

\* do_predictions with its get_daily as in f.
DpStep(f) ==
    IF f.out = Pending
    THEN /\ dp' = [dp EXCEPT !.f = f]
         /\ sent' = <<>>
         /\ UNCHANGED predictions
    ELSE IF ~f.out.ok
    THEN /\ sent' = ToChannels("report_error", f.sym, dp.at)
         /\ DpNext([dp EXCEPT !.f = NoLookup])
    ELSE LET actual == IF market_is_open(now) THEN f.out.res.open
                       ELSE f.out.res.close
         IN  /\ sent' = ReportMessages(f.sym, EntriesOf(predictions, f.sym),
                                       actual, now, dp.at)
             /\ dp' = [dp EXCEPT !.pc = "sleep15", !.wake = now + 15,
                                 !.f = NoLookup]
             /\ UNCHANGED predictions

DpRespond(responses) ==
    /\ dp.pc = "lookup"
    /\ dp.f.av.pc = "http"
    /\ \E r \in responses : DpStep(LookupResponse(dp.f, r, now))
    /\ last' = NoChat /\ ended' = NoEnd
    /\ UNCHANGED <<now, config, plugin, relay_bots, timers, call_id, ticks, tk,
                   st, chat, n_chat, avvars, gdvars>>

DpRetry ==
    /\ dp.pc = "lookup"
    /\ dp.f.av.pc = "sleep"
    /\ dp.f.av.wake = now
    /\ DpStep(LookupWake(dp.f, now))
    /\ last' = NoChat /\ ended' = NoEnd
    /\ UNCHANGED <<now, config, plugin, relay_bots, timers, call_id, ticks, tk,
                   st, chat, n_chat, avvars, gdvars>>

\* sleep(15) after a symbol's report is over.
DpSleepDone ==
    /\ dp.pc = "sleep15"
    /\ dp.wake = now
    /\ DpNext(dp)
    /\ sent' = <<>> /\ last' = NoChat /\ ended' = NoEnd
    /\ UNCHANGED <<now, config, plugin, relay_bots, timers, call_id, ticks, tk,
                   st, chat, n_chat, avvars, gdvars>>

----------------------------------------------------------------------------
(* The chat commands: check and predict *)

\* user_info(nick, user, vhost) of the people who talk
Alice == [nick |-> "alice", user |-> "al", vhost |-> "home"]
Relay == [nick |-> "relay", user |-> "bot", vhost |-> "bridge"]
Mallory == [nick |-> "relay", user |-> "mal", vhost |-> "evil"]
Users == {Alice, Relay, Mallory}

\* group(1) of the regexes: the nick a relayed message starts with, if any
Prefixes == {None, "bob"}
ChatSymbols == {1, 2}
\* groups 3 and 4 of PREDICT_REGEX
PredictArgs == {[sign |-> "+", pct |-> 0], [sign |-> "-", pct |-> 4]}
ChatChannel == "#a"

is_relay_bot_Any(user) ==
    \E i \in 1..Len(relay_bots) :
        LET bot == relay_bots[i]
        IN  \/ (bot.nick = None \/ bot.nick = user.nick)
            \/ (bot.user = None \/ bot.user = user.user)
            \/ (bot.vhost = None \/ bot.vhost = user.vhost)

is_relay_bot(user) ==
    \E i \in 1..Len(relay_bots) :
        LET bot == relay_bots[i]
        IN  /\ (bot.nick = None \/ bot.nick = user.nick)
            /\ (bot.user = None \/ bot.user = user.user)
            /\ (bot.vhost = None \/ bot.vhost = user.vhost)

\* A command arrives: the regex matched, the handler runs up to its get_daily
\* (or returns at once: a relayed message not sent by a relay bot).
Command(op, user, prefix, symbol, args) ==
    /\ plugin.state = "running"
    /\ n_chat < MaxChat
    /\ Len(chat) < MaxHandlers
    /\ n_chat' = n_chat + 1
    /\ last' = [n |-> n_chat + 1, op |-> op, user |-> user, prefix |-> prefix,
                symbol |-> symbol, args |-> args]
    /\ IF prefix # None /\ ~is_relay_bot(user)
       THEN UNCHANGED chat
       ELSE chat' = Append(chat,
                           [op |-> op,
                            nick |-> IF prefix # None THEN prefix ELSE user.nick,
                            by |-> user, args |-> args, f |-> Lookup(symbol)])
    /\ sent' = <<>> /\ ended' = NoEnd
    /\ UNCHANGED <<now, config, plugin, relay_bots, timers, call_id, ticks, tk,
                   st, dp, predictions, avvars, gdvars>>

NoArgs == [sign |-> None, pct |-> 0]

Check(users, prefixes, symbols) ==
    \E user \in users, prefix \in prefixes, symbol \in symbols :
        Command("check", user, prefix, symbol, NoArgs)

Predict(users, prefixes, symbols, arguments) ==
    \E user \in users, prefix \in prefixes, symbol \in symbols,
       args \in arguments :
        Command("predict", user, prefix, symbol, args)

Remove(seq, k) == [i \in 1..(Len(seq) - 1) |-> IF i < k THEN seq[i] ELSE seq[i + 1]]

\* self.predictions[symbol]: a defaultdict makes the symbol's dict on a miss.
Touch(preds, symbol) ==
    IF HasSymbol(preds, symbol) THEN preds
    ELSE Append(preds, [sym |-> symbol, entries |-> <<>>])

\* save_prediction
save_prediction(preds, symbol, nick, base, prediction, t, by) ==
    LET k == SymbolIdx(preds, symbol)
        item == [nick |-> nick, dt |-> t, base |-> base,
                 prediction |-> prediction, by |-> by]
        old == preds[k].entries
    IN  [preds EXCEPT ![k].entries =
            IF HasNick(old, nick)
            THEN [i \in 1..Len(old) |-> IF old[i].nick = nick THEN item ELSE old[i]]
            ELSE Append(old, item)]

\* check after its get_daily
CheckEnd(h) ==
    /\ sent' = Append(<<>>,
                      IF h.f.out.ok
                      THEN Msg(ChatChannel, "check",
                               [symbol |-> h.f.sym, current |-> h.f.out.res.current,
                                change |-> colorize(h.f.out.res.percentage)], -1)
                      ELSE Msg(ChatChannel, "check_error", h.nick, -1))
    /\ ended' = [NoEnd EXCEPT !.op = "check", !.nick = h.nick,
                              !.symbol = h.f.sym, !.parsed = h.f.out.ok]
    /\ UNCHANGED predictions

\* parse_prediction after its get_daily, then predict.  A failed get_daily
\* raises out of both; with an old prediction of the nick for the symbol the
\* text of the answer names old_datetime, which is not defined: NameError.
PredictEnd(h) ==
    LET old == HasNick(EntriesOf(predictions, h.f.sym), h.nick)
        end == [NoEnd EXCEPT !.op = "predict", !.nick = h.nick,
                             !.symbol = h.f.sym, !.old = old]
    IN
    IF ~h.f.out.ok
    THEN /\ sent' = <<>>
         /\ ended' = [end EXCEPT !.exc = h.f.out.exc]
         /\ UNCHANGED predictions
    ELSE LET base == IF market_is_open(now) THEN h.f.out.res.open
                     ELSE h.f.out.res.close
             part == (h.args.pct * base) \div 100
             prediction == IF h.args.sign = "-" THEN base - part ELSE base + part
             touched == Touch(predictions, h.f.sym)
             parsed == [end EXCEPT !.parsed = TRUE, !.base = base,
                                   !.prediction = prediction]
         IN  IF HasNick(EntriesOf(touched, h.f.sym), h.nick)
             THEN /\ predictions' = touched
                  /\ sent' = <<>>
                  /\ ended' = [parsed EXCEPT !.exc = "NameError"]
             ELSE /\ predictions' = save_prediction(touched, h.f.sym, h.nick, base,
                                                    prediction, now, h.by)
                  /\ ended' = parsed
                  /\ sent' = Append(<<>>,
                        Msg(ChatChannel, "predicted",
                            [nick |-> h.nick, symbol |-> h.f.sym,
                             at |-> IF market_is_open(now) THEN "close" ELSE "open",
                             prediction |-> prediction,
                             change |-> colorize(get_delta(prediction, base)),
                             old |-> ""], -1))

\* The handler k with its get_daily as in f.
ChatStep(k, f) ==
    IF f.out = Pending
    THEN /\ chat' = [chat EXCEPT ![k].f = f]
         /\ sent' = <<>> /\ ended' = NoEnd
         /\ UNCHANGED predictions
    ELSE /\ chat' = Remove(chat, k)
         /\ IF chat[k].op = "check"
            THEN CheckEnd([chat[k] EXCEPT !.f = f])
            ELSE PredictEnd([chat[k] EXCEPT !.f = f])

ChatRespond(responses) ==
    /\ \E k \in 1..Len(chat), r \in responses :
         /\ chat[k].f.av.pc = "http"
         /\ ChatStep(k, LookupResponse(chat[k].f, r, now))
    /\ last' = NoChat
    /\ UNCHANGED <<now, config, plugin, relay_bots, timers, call_id, ticks, tk,
                   st, dp, n_chat, avvars, gdvars>>

ChatRetry ==
    /\ \E k \in 1..Len(chat) :
         /\ chat[k].f.av.pc = "sleep"
         /\ chat[k].f.av.wake = now
         /\ ChatStep(k, LookupWake(chat[k].f, now))
    /\ last' = NoChat
    /\ UNCHANGED <<now, config, plugin, relay_bots, timers, call_id, ticks, tk,
                   st, dp, n_chat, avvars, gdvars>>

----------------------------------------------------------------------------
(* Time *)

Frames ==
    {st.frames[i] : i \in 1..Len(st.frames)}
        \cup {dp.f} \cup {chat[i].f : i \in 1..Len(chat)}

\* The times something is due at: the tick timers and the sleeps.
Deadlines ==
    {c.at : c \in timers}
        \cup {f.av.wake : f \in {g \in Frames : g.av.pc = "sleep"}}
        \cup (IF dp.pc \in {"sleep60", "sleep15"} THEN {dp.wake} ELSE {})

MinOf(S) == CHOOSE x \in S : \A y \in S : x <= y

\* Time passes up to the next thing due; a request is answered at once.
Elapse ==
    /\ plugin.state \in {"running", "closed"}
    /\ \A f \in Frames : f.av.pc # "http"
    /\ Deadlines # {}
    /\ now < MinOf(Deadlines)
    /\ now' = MinOf(Deadlines)
    /\ sent' = <<>> /\ last' = NoChat /\ ended' = NoEnd
    /\ UNCHANGED <<config, plugin, relay_bots, timers, call_id, ticks, tk, st,
                   dp, chat, predictions, n_chat, avvars, gdvars>>

\* The configuration of a running ticker with a relay bot.
FullConfig ==
    [api_key |-> "key", channels |-> <<"#a", "#b">>, stocks |-> <<2, 1>>,
     relay_bots |-> <<[nick |-> "ghost", user |-> "g", vhost |-> None],
                      [nick |-> "relay", user |-> None, vhost |-> "bridge"]>>]

\* Spec: a request gets the market's series, a body without a series, or fails
MainResponses == {"ok", "nokey", "error"}

\* and a command's request is answered at the first try
ChatResponses == {"ok", "nokey"}

Init == InitWith(StartTimes, {FullConfig})

Next ==
    \/ Setup
    \/ TimerFire
    \/ TickerRespond(MainResponses)
    \/ TickerRetry
    \/ DpStart
    \/ DpRespond(MainResponses)
    \/ DpRetry
    \/ DpSleepDone
    \/ Predict({Alice, Relay}, {None}, ChatSymbols, PredictArgs)
    \/ ChatRespond(ChatResponses)
    \/ Elapse

Spec == Init /\ [][Next]_vars

----------------------------------------------------------------------------
(* SpecSetup: construction under every configuration, and close() *)

InitSetup == InitWith(StartTimes, Configs)

NextSetup == Setup \/ Close

SpecSetup == InitSetup /\ [][NextSetup]_vars

----------------------------------------------------------------------------
(* SpecChat: the commands of every user, before the first tick *)

AnyBot == [nick |-> None, user |-> None, vhost |-> None]

ChatConfigs ==
    {[FullConfig EXCEPT !.relay_bots = r] : r \in RelayChoices \cup {<<AnyBot>>}}

ChatTimes == {At(0, 9, 20, 30)}

InitChat == InitWith(ChatTimes, ChatConfigs)

NextChat ==
    \/ Setup
    \/ Check(Users, Prefixes, {1})
    \/ Predict(Users, Prefixes, {1}, {[sign |-> "-", pct |-> 4]})
    \/ ChatRespond({"ok", "nokey", "note"})
    \/ ChatRetry
    \/ Elapse

SpecChat == InitChat /\ [][NextChat]_vars

----------------------------------------------------------------------------
(* SpecReport: the ticks of a plugin that has collected predictions *)

ReportTime == At(0, 9, 20, 30)

\* self.predictions after '!predict n -4%' ... '!predict 1 -4%' of alice have
\* been handled at time t, the market being closed.
RECURSIVE Collected(_, _)
Collected(n, t) ==
    IF n = 0 THEN NoPredictions
    ELSE LET base == GetDaily(Market(n, t), t).close
             prediction == base - (4 * base) \div 100
         IN  save_prediction(Touch(Collected(n - 1, t), n), n, Alice.nick,
                             base, prediction, t, Alice)

\* The plugin as __init__ and these commands leave it.
InitReport ==
    /\ now = ReportTime
    /\ config = FullConfig
    /\ plugin = [state |-> "running", exc |-> "none"]
    /\ relay_bots = config.relay_bots
    /\ timers = {Wait(now, 1)}
    /\ call_id = [id |-> 1, state |-> "pending"]
    /\ ticks = 0
    /\ tk = IdleTick /\ st = IdleTicker /\ dp = IdleReport
    /\ chat = <<>>
    /\ \E n \in 0..MaxSymbols :
         /\ predictions = Collected(n, now)
         /\ n_chat = n
    /\ sent = <<>> /\ last = NoChat /\ ended = NoEnd
    /\ av = NoCall /\ av_log = <<>> /\ av_calls = 0
    /\ gd_data = <<>> /\ gd_res = NoDaily

NextReport ==
    \/ TimerFire
    \/ TickerRespond(MainResponses)
    \/ TickerRetry
    \/ DpStart
    \/ DpRespond(MainResponses)
    \/ DpRetry
    \/ DpSleepDone
    \/ Elapse

SpecReport == InitReport /\ [][NextReport]_vars

----------------------------------------------------------------------------
(* SpecDaily: get_daily on the time series of one response *)

Prices == {100, 125}
Quotes == [open : Prices, close : Prices]

\* The times est_now() is read at: early and late on the same New York day.
DailyTimes == {20 * DAY + 30, 20 * DAY + 23 * 3600 + 59 * 60}

DailyWindow == (20 - WindowDays)..20

InitDaily ==
    /\ now \in DailyTimes
    /\ \E dates \in SUBSET DailyWindow :
         /\ Cardinality(dates) <= MaxEntries
         /\ gd_data \in [dates -> Quotes]
    /\ gd_res = NoDaily
    /\ av = NoCall /\ av_log = <<>> /\ av_calls = 0
    /\ config = EmptyConfig /\ PluginUnset

GdReturn ==
    /\ gd_res = NoDaily
    /\ gd_res' = [pc |-> "done", out |-> GetDaily(gd_data, now)]
    /\ UNCHANGED <<now, gd_data, avvars, plvars>>

NextDaily == GdReturn

SpecDaily == InitDaily /\ [][NextDaily]_vars

----------------------------------------------------------------------------
(* SpecAV: calls of make_av_request, one after the other *)

Ev(e, t, o) == [ev |-> e, at |-> t, outcome |-> o]

InitAV ==
    /\ now = 0
    /\ av = NoCall
    /\ av_log = <<>>
    /\ av_calls = 0
    /\ gd_data = <<>> /\ gd_res = NoDaily
    /\ config = EmptyConfig /\ PluginUnset

AvCall ==
    /\ AvOver(av)
    /\ av_calls < MaxCalls
    /\ av_calls' = av_calls + 1
    /\ av' = AvStart
    /\ av_log' = IF AvStart.pc = "http" THEN <<Ev("request", now, "none")>>
                 ELSE <<Ev(AvStart.pc, now, "none")>>
    /\ UNCHANGED <<now, gdvars, plvars>>

\* The end of the step that c went through, as the log records it.
AvTail(c, t) ==
    CASE c.pc = "http"     -> <<Ev("request", t, "none")>>
      [] c.pc = "sleep"    -> <<Ev("sleep", t, "none")>>
      [] OTHER             -> <<Ev(c.pc, t, "none")>>

AvRespond ==
    /\ av.pc = "http"
    /\ \E o \in Outcomes, d \in 0..MaxLatency :
         /\ now' = now + d
         /\ av' = AvResponse(av, o, now')
         /\ av_log' = av_log \o <<Ev("response", now', o)>> \o AvTail(av', now')
    /\ UNCHANGED <<av_calls, gdvars, plvars>>

AvSleepDone ==
    /\ av.pc = "sleep"
    /\ now' = av.wake
    /\ av' = AvWake(av)
    /\ av_log' = av_log \o AvTail(av', now')
    /\ UNCHANGED <<av_calls, gdvars, plvars>>

NextAV == AvCall \/ AvRespond \/ AvSleepDone

SpecAV == InitAV /\ [][NextAV]_vars

----------------------------------------------------------------------------
(* Claims about make_av_request, checked under SpecAV *)

LogIdx(e) == {i \in 1..Len(av_log) : av_log[i].ev = e}

Succeeded(i) == av_log[i].ev = "response" /\ ~AttemptRaises(av_log[i].outcome)
Failed(i) == av_log[i].ev = "response" /\ AttemptRaises(av_log[i].outcome)

\* C1: one call of make_av_request issues at most 3 HTTP requests, issues none
\* after the first attempt that succeeds, and returns that attempt's result.
C1_AtMostThreeTries ==
    /\ Cardinality(LogIdx("request")) <= 3
    /\ av.requests = Cardinality(LogIdx("request"))
    /\ \A i \in 1..Len(av_log) :
         Succeeded(i) =>
            /\ i + 1 = Len(av_log)
            /\ av_log[i + 1].ev = "returned"
            /\ av.pc = "returned"
            /\ av.result = [kind |-> av_log[i].outcome,
                            attempt |-> Cardinality(LogIdx("request"))]
    /\ av.pc = "returned" => Succeeded(Len(av_log) - 1)

C1_Witness ==
    /\ av.pc = "returned"
    /\ av.requests = 3
    /\ Cardinality({i \in 1..Len(av_log) : Failed(i)}) = 2

\* C2: a wait of 15 seconds separates every failed attempt from the next
\* attempt; nothing is waited for after a success or after the last failure.
C2_FixedBackoff ==
    \A i \in 1..Len(av_log) :
      /\ av_log[i].ev = "sleep" =>
            /\ i > 1 /\ Failed(i - 1) /\ av_log[i - 1].at = av_log[i].at
            /\ i < Len(av_log) =>
                  /\ av_log[i + 1].ev = "request"
                  /\ av_log[i + 1].at = av_log[i].at + 15
      /\ (av_log[i].ev = "request" /\ i > 1) => av_log[i - 1].ev = "sleep"
      /\ Failed(i) =>
            /\ i < Len(av_log)
            /\ IF Cardinality({j \in 1..i : av_log[j].ev = "request"}) < 3
               THEN av_log[i + 1].ev = "sleep"
               ELSE /\ av_log[i + 1].ev = "raised"
                    /\ av_log[i + 1].at = av_log[i].at
                    /\ i + 1 = Len(av_log)
      /\ Succeeded(i) => /\ i < Len(av_log)
                         /\ av_log[i + 1].ev = "returned"
                         /\ av_log[i + 1].at = av_log[i].at

C2_Witness ==
    /\ av.pc = "raised"
    /\ av.slept = 2
    /\ Cardinality(LogIdx("sleep")) = 2

\* The number of requests issued up to entry i of the log.
RequestsUpTo(i) == Cardinality({j \in 1..i : av_log[j].ev = "request"})

\* C14: a response with a rate-limit note is never the result of
\* make_av_request: the attempt counts as failed, is followed by the wait and
\* the next attempt while attempts are left, and as the response of the last
\* attempt ends the call with ThrottledException.
C14_ThrottledIsFailure ==
    /\ av.pc = "returned" => av.result.kind # "note"
    /\ \A i \in 1..Len(av_log) :
          (av_log[i].ev = "response" /\ av_log[i].outcome = "note") =>
             /\ i < Len(av_log)
             /\ IF RequestsUpTo(i) < 3
                THEN /\ av_log[i + 1].ev = "sleep"
                     /\ i + 1 < Len(av_log) => av_log[i + 2].ev = "request"
                ELSE /\ av_log[i + 1].ev = "raised"
                     /\ av.pc = "raised"
                     /\ av.exc = "ThrottledException"

\* Throttled at the last attempt, after an attempt that failed otherwise.
C14_Witness ==
    /\ av.pc = "raised"
    /\ av.exc = "ThrottledException"
    /\ av.requests = 3
    /\ \E i \in 1..Len(av_log) : av_log[i].ev = "response" /\ av_log[i].outcome = "error"


----------------------------------------------------------------------------
(* Claims about get_daily, checked under SpecDaily *)

MaxOf(S) == CHOOSE x \in S : \A y \in S : y <= x

WithEntry(from, to) == {d \in DOMAIN gd_data : from <= d /\ d <= to}

\* C4: 'today' is the most recent date with an entry among the current New
\* York date and the 5 days before it, the previous trading day the most
\* recent one among the 6 days strictly before 'today'.
C4_MostRecentDates ==
    gd_res.pc = "done" =>
        LET D == DateKey(now)
            r == gd_res.out
        IN  IF WithEntry(D - 5, D) = {}
            THEN ~r.ok /\ r.today = NoDate
            ELSE /\ r.today = MaxOf(WithEntry(D - 5, D))
                 /\ IF WithEntry(r.today - 6, r.today - 1) = {}
                    THEN ~r.ok /\ r.last_day = NoDate
                    ELSE /\ r.ok
                         /\ r.last_day = MaxOf(WithEntry(r.today - 6, r.today - 1))
                         /\ WithEntry(r.last_day + 1, r.today - 1) = {}
                         /\ WithEntry(r.today + 1, D) = {}

\* Both searches went to their last day: 'today' five days back, the previous
\* trading day six days before it.
C4_Witness ==
    /\ gd_res.pc = "done"
    /\ gd_res.out.ok
    /\ gd_res.out.today = DateKey(now) - 5
    /\ gd_res.out.last_day = gd_res.out.today - 6

\* C11: the percentage get_daily returns is the change of the current day's
\* close relative to the previous trading day's close: positive exactly when
\* the close rose, negative exactly when it fell, zero when it is the same.
C11_DailyChangeSign ==
    (gd_res.pc = "done" /\ gd_res.out.ok) =>
        LET current == gd_data[gd_res.out.today].close
            previous == gd_data[gd_res.out.last_day].close
            percentage == gd_res.out.percentage
        IN  /\ percentage = (current * 100 * 100) \div previous - 100 * 100
            /\ percentage > 0 <=> current > previous
            /\ percentage < 0 <=> current < previous
            /\ percentage = 0 <=> current = previous


----------------------------------------------------------------------------
(* Claims about the plugin *)

\* The tick of a weekday's market open (9:30) or close (16:00).
OpenOrCloseTick(t) ==
    /\ Weekday(t) < 5
    /\ (Hour(t) = 9 /\ Minute(t) = 30) \/ (Hour(t) = 16 /\ Minute(t) = 0)

\* C3: when a run of do_predictions started by a market-open or market-close
\* tick is over, the predictions mapping is empty.
C3_ClearedAfterCycle ==
    [][(/\ dp.pc \in {"lookup", "sleep15"}
        /\ OpenOrCloseTick(dp.at)
        /\ dp'.pc = "idle")
          => predictions' = NoPredictions]_vars

OkFrames == SelectSeq(st.frames, LAMBDA f : f.out.ok)

\* C5: when a symbol's request fails, send_ticker still returns and has sent
\* the message of the other symbols to every configured channel.
C5_FailedSymbolSkipped ==
    (st.state = "done" /\ \E i \in 1..Len(st.frames) : ~st.frames[i].out.ok)
        => /\ st.exc = "none"
           /\ st.to = config.channels
           /\ Len(st.msg) = Len(OkFrames)
           /\ \A i \in 1..Len(st.msg) : st.msg[i].symbol = OkFrames[i].sym

\* C6: the ticker message lists the configured symbols in their order, each
\* with the daily change fetched for that symbol.
C6_OwnChangePerSymbol ==
    (st.state = "done" /\ st.exc = "none")
        => /\ Len(st.msg) = Len(config.stocks)
           /\ \A i \in 1..Len(st.msg) :
                /\ st.msg[i].symbol = config.stocks[i]
                /\ st.frames[i].sym = config.stocks[i]
                /\ st.msg[i].change = colorize(st.frames[i].out.res.percentage)

\* C7: wait() hands the reactor the delay (15 - m mod 15) * 60 - s, so that
\* tick fires at second 0 of a multiple of 15 minutes, at most 15 minutes later.
C7_NextQuarterHour ==
    \A c \in timers :
        /\ c.at - c.set = (15 - (Minute(c.set) % 15)) * 60 - Second(c.set)
        /\ Second(c.at) = 0
        /\ Minute(c.at) % 15 = 0
        /\ c.at - c.set <= 15 * 60

\* Saturday, Sunday, or a weekday before 9:30 or after 16:00.
OutsideHours(t) ==
    \/ Weekday(t) >= 5
    \/ Hour(t) * 60 + Minute(t) < 9 * 60 + 30
    \/ Hour(t) * 60 + Minute(t) > 16 * 60

\* C8: a tick outside the market's hours sends no ticker, runs no predictions
\* report, makes no request and sends no message.
C8_ClosedTickOnlyWaits ==
    /\ tk.pc = "send_ticker" => ~OutsideHours(tk.at)
    /\ dp.pc \in {"lookup", "sleep15"} => ~OutsideHours(dp.at)
    /\ \A i \in 1..Len(sent) : sent[i].tick # -1 => ~OutsideHours(sent[i].tick)

\* C9: construction fails without api_key or with more than 5 stocks, and then
\* no timer is scheduled; a constructed plugin has at most 5 stocks and
\* exactly one tick timer pending.
C9_ConstructionChecks ==
    LET bad == config.api_key = None \/ Len(config.stocks) > 5
    IN  /\ plugin.state # "unset" => (bad <=> plugin.state = "failed")
        /\ plugin.state = "failed" =>
              /\ timers = {}
              /\ call_id = NoTimer
              /\ plugin.exc \in {"KeyError", "ValueError"}
        /\ plugin.state = "running" =>
              /\ Len(config.stocks) <= 5
              /\ Cardinality(timers) = 1
              /\ \A c \in timers : c.id = call_id.id /\ c.at > now
              /\ call_id.state = "pending"

C9_Witness ==
    /\ plugin.state = "failed"
    /\ config.api_key # None
    /\ Len(config.stocks) = 6

\* The sender is one of the configured relay bots: each of nick, user and
\* vhost of some entry is unset or the sender's.
IsConfiguredRelay(user) ==
    \E i \in 1..Len(config.relay_bots) :
        \A field \in {"nick", "user", "vhost"} :
            config.relay_bots[i][field] \in {None, user[field]}

Relayed(c) == c.op # "none" /\ c.prefix # None

\* C10: a relayed '!check' or '!predict' not sent by a relay bot has no effect,
\* and every prediction kept under another nick than its sender's came from a
\* relay bot.
C10_RelayedOnlyFromRelayBots ==
    /\ [](/\ \A i \in 1..Len(predictions) :
               \A j \in 1..Len(predictions[i].entries) :
                  LET e == predictions[i].entries[j]
                  IN  e.nick # e.by.nick => IsConfiguredRelay(e.by)
          /\ \A k \in 1..Len(chat) :
               chat[k].nick # chat[k].by.nick => IsConfiguredRelay(chat[k].by))
    /\ [][(Relayed(last') /\ ~IsConfiguredRelay(last'.user))
             => /\ chat' = chat
                /\ predictions' = predictions
                /\ sent' = <<>>
                /\ st' = st /\ dp' = dp]_vars

\* A relayed '!predict' of someone who has the relay bot's nick only.
C10_Witness ==
    /\ Relayed(last)
    /\ last.op = "predict"
    /\ last.user = Mallory
    /\ relay_bots # <<>>
    /\ ~IsConfiguredRelay(last.user)

\* A request of send_ticker has been started: its make_av_request is under
\* way, or get_daily_change is over.
TickerStarted(f) == f.av.requests >= 1 \/ f.out # Pending

\* C12: send_ticker has started the requests of all configured symbols when it
\* waits, sends the ticker message only once every request is over, and in
\* one run sends exactly one message to each configured channel.
C12_TickerAfterAllRequests ==
    /\ st.state \in {"waiting", "done"} =>
          /\ Len(st.frames) = Len(config.stocks)
          /\ \A i \in 1..Len(st.frames) :
                st.frames[i].sym = config.stocks[i] /\ TickerStarted(st.frames[i])
    /\ \A i \in 1..Len(sent) :
          sent[i].kind = "ticker" =>
             /\ st.state = "done"
             /\ \A j \in 1..Len(st.frames) : st.frames[j].out # Pending
    /\ st.state = "done" =>
          /\ \A j \in 1..Len(st.frames) : st.frames[j].out # Pending
          /\ st.to = config.channels

\* C13: every execution of tick() schedules the next one: once tick() is past
\* its send_ticker, whether that was sent, was not due or failed, the timer of
\* its wait() is pending, as long as the plugin is not closed.
C13_TickSchedulesNext ==
    (plugin.state = "running" /\ ticks > 0 /\ tk.pc = "idle") =>
        /\ call_id.state = "pending"
        /\ \E c \in timers : c.id = call_id.id /\ c.at >= now /\ c.set >= tk.at

\* The messages of the latest step that announce a prediction for the symbol
\* of the 'closest guess' message i, on the same channel.
AnnouncedWith(i) ==
    {j \in 1..Len(sent) : /\ sent[j].kind = "prediction"
                          /\ sent[j].chan = sent[i].chan
                          /\ sent[j].body.symbol = sent[i].body.symbol}

\* C15: in the report of a market-open or market-close tick, the nick
\* announced as the closest guess for a symbol is one of those who predicted
\* it, and no prediction for the symbol is nearer to the actual value than the
\* announced one, an exact prediction included.
C15_ClosestIsNearest ==
    \A i \in 1..Len(sent) :
        (sent[i].kind = "closest" /\ OpenOrCloseTick(sent[i].tick)) =>
            /\ \E j \in AnnouncedWith(i) :
                  /\ sent[j].body.nick = sent[i].body.nick
                  /\ sent[j].body.prediction = sent[i].body.prediction
            /\ \A j \in AnnouncedWith(i) :
                  Abs(sent[j].body.actual - sent[i].body.prediction)
                     <= Abs(sent[j].body.actual - sent[j].body.prediction)

\* C16: the mapping holds at most one prediction per symbol and nick, and a
\* valid '!predict' of someone who already has a prediction for the symbol
\* replaces it (new time, base and predicted price) and is confirmed on the
\* channel by a message that mentions the replaced prediction.
C16_PredictionReplaced ==
    /\ \A i \in 1..Len(predictions) :
          LET entries == predictions[i].entries
          IN  /\ \A k \in 1..Len(predictions) :
                    predictions[k].sym = predictions[i].sym => k = i
              /\ \A j, k \in 1..Len(entries) :
                    entries[j].nick = entries[k].nick => j = k
    /\ (ended.op = "predict" /\ ended.parsed /\ ended.old) =>
          /\ ended.exc = "none"
          /\ \E j \in 1..Len(EntriesOf(predictions, ended.symbol)) :
                LET e == EntriesOf(predictions, ended.symbol)[j]
                IN  /\ e.nick = ended.nick
                    /\ e.dt = now
                    /\ e.base = ended.base
                    /\ e.prediction = ended.prediction
          /\ \E i \in 1..Len(sent) :
                /\ sent[i].kind = "predicted"
                /\ sent[i].body.nick = ended.nick
                /\ sent[i].body.symbol = ended.symbol
                /\ sent[i].body.prediction = ended.prediction
                /\ sent[i].body.old # ""

\* C17: a run of do_predictions looks the symbols up one at a time, starts the
\* lookups of at most 4 symbols within any 60 seconds whatever their outcomes,
\* and starts the first one no sooner than 60 seconds after the ticker of its
\* tick.
C17_FourLookupsPerMinute ==
    /\ [](dp.pc \in {"lookup", "sleep15"} =>
            /\ Len(dp.starts) = dp.pos
            /\ dp.starts[1] >= dp.after + 60
            /\ \A i \in 1..Len(dp.starts) :
                  i + 4 <= Len(dp.starts) => dp.starts[i + 4] - dp.starts[i] >= 60)
    /\ [][(\E i \in 1..Len(sent') : sent'[i].kind = "ticker" /\ sent'[i].tick = dp'.at)
             => dp'.after = now']_vars

====
